---- MODULE Spec2Model ----
(***************************************************************************)
(* Optimistic-update state machine of @marianmeres/ecsuite.                *)
(*                                                                         *)
(* The model follows one CartManager instance (src/src/domains/cart.ts)    *)
(* built on BaseDomainManager (src/src/domains/base.ts).  Every action is  *)
(* one run-to-completion stretch of JavaScript: the synchronous part of a  *)
(* method up to its `await`, or the continuation that runs when the        *)
(* awaited promise settles.  The adapter is an external collaborator: a    *)
(* pending call resolves with any cart or rejects with any value.          *)
(*                                                                         *)
(* `notified` is the sequence of snapshots the store handed to its         *)
(* subscribers during the last step of the manager, `events` the sequence  *)
(* of events published on the pubsub during that step, `last` what that    *)
(* step was.  `trace` is everything that step did to the outside, in the   *)
(* order the code did it: snapshots handed to subscribers, events          *)
(* published, calls of caller-supplied functions.  The passing of time     *)
(* (Tick) is not a step of the manager.                                    *)
(*                                                                         *)
(* Spec and SpecCb follow a CartManager, SpecWishlist a WishlistManager,   *)
(* SpecServer an OrderManager or a PaymentManager (`domain` tells which):  *)
(* their methods call the adapter without an optimistic update.            *)
(***************************************************************************)
EXTENDS Integers, Sequences, FiniteSets, TLC

VARIABLES store, domain, adapter, ops, microtasks, calls, now, notified, events, trace, last

vars == <<store, domain, adapter, ops, microtasks, calls, now, notified, events, trace, last>>

(* ---------------------------- bounds ----------------------------------- *)

\* invocations in flight at once
MaxOps == 2

\* invocations of asynchronous methods in one behaviour
MaxCalls == 3

MaxQty == 2

MaxTime == 1

Products == {"p1"}

(* ---------------------------- values ----------------------------------- *)

\* JavaScript null (data, error, lastSyncedAt of DomainStateWrapper)
Null == [null |-> TRUE]

DomainState == {"initializing", "ready", "syncing", "error"}

\* a numeric timestamp as returned by Date.now()
Ts(t) == [ms |-> t]

CartItem(p, q) == [product_id |-> p, quantity |-> q]

CartData(items) == [items |-> items]

Items == {CartItem(p, q) : p \in Products, q \in 1..MaxQty}

\* carts an adapter may answer with: at most one line per product
AdapterCarts ==
    {CartData(<<>>)}
        \cup {CartData(<<i>>) : i \in Items}
        \cup {CartData(<<ij[1], ij[2]>>) :
                ij \in {pq \in Items \X Items : pq[1].product_id # pq[2].product_id}}

\* values a rejected adapter promise may carry: an Error or anything else
Rejections == {[isError |-> TRUE, message |-> "Server error"],
               [isError |-> FALSE, message |-> "n/a"]}

\* e instanceof Error ? e.message : fallback
ErrorMessage(e, fallback) == IF e.isError THEN e.message ELSE fallback

DomainError(code, message, e, operation) ==
    [code |-> code, message |-> message, originalError |-> e, operation |-> operation]

initialState ==
    [state |-> "initializing", data |-> Null, error |-> Null, lastSyncedAt |-> Null]

\* snapshots a previous page load may have left in the storage backend
PersistedSnapshots ==
    {[state |-> "ready", data |-> CartData(<<CartItem("p1", 1)>>), error |-> Null,
      lastSyncedAt |-> Ts(0)]}

(* ------------------- store and pubsub plumbing ------------------------- *)

\* the effects of a stretch of code: the snapshot, what subscribers were
\* handed, what was published
Ctx(s) == [store |-> s, notified |-> <<>>, events |-> <<>>, trace |-> <<>>]

\* this._store.update(fn): replace the snapshot and notify the subscribers
StoreUpdate(c, s) ==
    [c EXCEPT !.store = s,
              !.notified = Append(@, s),
              !.trace = Append(@, [kind |-> "snapshot", snapshot |-> s])]

\* this._emit(event): the event is published while the store holds c.store
Emit(c, event) ==
    [c EXCEPT !.events = Append(@, event),
              !.trace = Append(@, [kind |-> "event", event |-> event,
                                   snapshot |-> c.store])]

\* the call of a function the caller supplied: serverSync(), onSuccess(result)
Call(c, callee) == [c EXCEPT !.trace = Append(@, [kind |-> "call", callee |-> callee])]

Event(type, t, payload) ==
    [type |-> type, domain |-> domain, timestamp |-> t, payload |-> payload]

(* ------------------------ BaseDomainManager ---------------------------- *)

\* _setState that does nothing
SetStateNever(c, state, t) == c

\* _setState without the comparison with the current phase
SetStateAlways(c, state, t) ==
    Emit(StoreUpdate(c, [c.store EXCEPT !.state = state]),
         Event("domain:state:changed", t,
               [previousState |-> c.store.state, newState |-> state]))

SetState(c, state, t) ==
    IF c.store.state # state
    THEN Emit(StoreUpdate(c, [c.store EXCEPT !.state = state]),
              Event("domain:state:changed", t,
                    [previousState |-> c.store.state, newState |-> state]))
    ELSE c

\* _setData that forgets the time of the last sync
SetDataDropsSyncTime(c, data, markReady) ==
    StoreUpdate(c, [c.store EXCEPT !.data = data,
                                   !.state = IF markReady THEN "ready" ELSE @,
                                   !.error = Null,
                                   !.lastSyncedAt = Null])

\* _setData that marks ready whatever markReady says
SetDataMarksReady(c, data, markReady) ==
    StoreUpdate(c, [c.store EXCEPT !.data = data, !.state = "ready", !.error = Null])

SetData(c, data, markReady) ==
    StoreUpdate(c, [c.store EXCEPT !.data = data,
                                   !.state = IF markReady THEN "ready" ELSE @,
                                   !.error = Null])

\* SetError that publishes the event before it updates the store
SetErrorEmitsFirst(c, error, t) ==
    StoreUpdate(Emit(c, Event("domain:error", t, [error |-> error])),
                [c.store EXCEPT !.state = "error", !.error = error])

\* SetError that records the error but leaves the phase alone
SetErrorKeepsPhase(c, error, t) ==
    Emit(StoreUpdate(c, [c.store EXCEPT !.error = error]),
         Event("domain:error", t, [error |-> error]))

\* SetError that publishes nothing
SetErrorSilent(c, error, t) ==
    StoreUpdate(c, [c.store EXCEPT !.state = "error", !.error = error])

SetError(c, error, t) ==
    Emit(StoreUpdate(c, [c.store EXCEPT !.state = "error", !.error = error]),
         Event("domain:error", t, [error |-> error]))

\* MarkSynced that leaves lastSyncedAt alone
MarkSyncedKeepsTime(c, t) ==
    Emit(StoreUpdate(c, [c.store EXCEPT !.state = "ready"]),
         Event("domain:synced", t, Null))

MarkSynced(c, t) ==
    Emit(StoreUpdate(c, [c.store EXCEPT !.state = "ready", !.lastSyncedAt = Ts(t)]),
         Event("domain:synced", t, Null))

\* a coordinator whose optimistic update marks the data ready
WithOptimisticUpdateBeginMarksReady(c, optimistic, t) ==
    SetState(SetData(c, optimistic, TRUE), "syncing", t)

\* a coordinator that applies the optimistic update and leaves the phase alone
WithOptimisticUpdateBeginKeepsPhase(c, optimistic, t) ==
    SetData(c, optimistic, FALSE)

\* _withOptimisticUpdate up to the call of serverSync(): capture is done by
\* the caller of this operator (previousData is kept in the op record)
WithOptimisticUpdateBegin(c, optimistic, t) ==
    SetState(SetData(c, optimistic, FALSE), "syncing", t)

\* a coordinator that calls serverSync() before it applies the optimistic update
WithOptimisticUpdateCallFirst(c, optimistic, t) ==
    WithOptimisticUpdateBegin(Call(c, "serverSync"), optimistic, t)

\* _withOptimisticUpdate from its first line to the call of serverSync()
WithOptimisticUpdateCall(c, optimistic, t) ==
    Call(WithOptimisticUpdateBegin(c, optimistic, t), "serverSync")

\* a catch block that reports the error without rolling back
WithOptimisticUpdateCatchNoRollback(c, previousData, operation, e, t) ==
    SetError(c,
             DomainError("SYNC_FAILED", ErrorMessage(e, "Unknown error"), e, operation),
             t)

\* a catch block that rolls back to an empty cart instead of previousData
WithOptimisticUpdateCatchEmpties(c, previousData, operation, e, t) ==
    LET rolled == IF previousData # Null THEN SetData(c, CartData(<<>>), FALSE) ELSE c
    IN  SetError(rolled,
                 DomainError("SYNC_FAILED", ErrorMessage(e, "Unknown error"), e, operation),
                 t)

\* a catch block that skips the rollback once the store was reset
WithOptimisticUpdateCatchAfterReset(c, previousData, operation, e, t) ==
    SetError(IF previousData # Null /\ c.store.state # "initializing"
             THEN SetData(c, previousData, FALSE)
             ELSE c,
             DomainError("SYNC_FAILED", ErrorMessage(e, "Unknown error"), e, operation),
             t)

\* a catch block that rolls back to the empty cart, not to its rollback point
WithOptimisticUpdateCatchForgets(c, previousData, operation, e, t) ==
    SetError(IF previousData # Null
             THEN SetData(c, CartData(<<>>), FALSE)
             ELSE c,
             DomainError("SYNC_FAILED", ErrorMessage(e, "Unknown error"), e, operation),
             t)

\* a catch block that rolls back whether or not there is a rollback point
WithOptimisticUpdateCatchAlways(c, previousData, operation, e, t) ==
    SetError(SetData(c, previousData, FALSE),
             DomainError("SYNC_FAILED", ErrorMessage(e, "Unknown error"), e, operation),
             t)

\* a catch block that reports the error first and rolls back afterwards
WithOptimisticUpdateCatchLate(c, previousData, operation, e, t) ==
    LET failed == SetError(c,
                           DomainError("SYNC_FAILED", ErrorMessage(e, "Unknown error"),
                                       e, operation),
                           t)
    IN  IF previousData # Null
        THEN StoreUpdate(failed, [failed.store EXCEPT !.data = previousData])
        ELSE failed

\* the catch block of _withOptimisticUpdate
WithOptimisticUpdateCatch(c, previousData, operation, e, t) ==
    LET rolled == IF previousData # Null THEN SetData(c, previousData, FALSE) ELSE c
    IN  SetError(rolled,
                 DomainError("SYNC_FAILED", ErrorMessage(e, "Unknown error"), e, operation),
                 t)

(* ---------------------------- CartManager ------------------------------ *)

\* Array.prototype.findIndex on product_id, 1-based; 0 when absent
FindIndex(items, p) ==
    IF \E k \in 1..Len(items) : items[k].product_id = p
    THEN CHOOSE k \in 1..Len(items) :
            /\ items[k].product_id = p
            /\ \A j \in 1..(k - 1) : items[j].product_id # p
    ELSE 0

\* an optimisticUpdate of addItem that replaces the quantity of a listed item
AddItemOptimisticReplaces(data, item) ==
    LET current == IF data = Null THEN CartData(<<>>) ELSE data
        existingIndex == FindIndex(current.items, item.product_id)
    IN  IF existingIndex >= 1
        THEN CartData([current.items EXCEPT ![existingIndex] =
                        [@ EXCEPT !.quantity = item.quantity]])
        ELSE CartData(Append(current.items, item))

\* optimisticUpdate of addItem
AddItemOptimistic(data, item) ==
    LET current == IF data = Null THEN CartData(<<>>) ELSE data
        existingIndex == FindIndex(current.items, item.product_id)
    IN  IF existingIndex >= 1
        THEN CartData([current.items EXCEPT ![existingIndex] =
                        [@ EXCEPT !.quantity = @ + item.quantity]])
        ELSE CartData(Append(current.items, item))

\* optimisticUpdate of removeItem
RemoveItemOptimistic(data, p) ==
    LET current == IF data = Null THEN CartData(<<>>) ELSE data
    IN  CartData(SelectSeq(current.items, LAMBDA i : i.product_id # p))

\* optimisticUpdate of clear
ClearOptimistic == CartData(<<>>)

\* the success callbacks of WishlistManager: addItem and removeItem take the
\* server's wishlist, clear ignores it; each publishes its own event
WishlistOnSuccess(c, op, serverData, t) ==
    CASE op.operation = "addItem" ->
            Emit(IF serverData # Null THEN SetData(c, serverData, TRUE) ELSE c,
                 Event("wishlist:item:added", t, [productId |-> op.arg.product_id]))
      [] op.operation = "removeItem" ->
            Emit(IF serverData # Null THEN SetData(c, serverData, TRUE) ELSE c,
                 Event("wishlist:item:removed", t, [productId |-> op.arg.product_id]))
      [] op.operation = "clear" ->
            Emit(c, Event("wishlist:cleared", t, Null))

\* success callbacks that publish their event and drop the server's cart
OnSuccessNoCommit(c, op, serverData, t) ==
    CASE op.operation = "addItem" ->
            Emit(c, Event("cart:item:added", t,
                          [productId |-> op.arg.product_id, quantity |-> op.arg.quantity]))
      [] op.operation = "removeItem" ->
            Emit(c, Event("cart:item:removed", t, [productId |-> op.arg.product_id]))
      [] op.operation = "clear" ->
            Emit(c, Event("cart:cleared", t, Null))

\* success callbacks that commit the optimistic cart, not the server's
OnSuccessKeepsOptimistic(c, op, serverData, t) ==
    CASE op.operation = "addItem" ->
            Emit(IF serverData # Null THEN SetData(c, op.optimistic, TRUE) ELSE c,
                 Event("cart:item:added", t,
                       [productId |-> op.arg.product_id, quantity |-> op.arg.quantity]))
      [] op.operation = "removeItem" ->
            Emit(IF serverData # Null THEN SetData(c, op.optimistic, TRUE) ELSE c,
                 Event("cart:item:removed", t, [productId |-> op.arg.product_id]))
      [] op.operation = "clear" ->
            Emit(c, Event("cart:cleared", t, Null))

\* the success callbacks: addItem and removeItem take the server's cart,
\* clear ignores it; each publishes its own event
OnSuccess(c, op, serverData, t) ==
    IF domain = "wishlist" THEN WishlistOnSuccess(c, op, serverData, t) ELSE
    CASE op.operation = "addItem" ->
            Emit(IF serverData # Null THEN SetData(c, serverData, TRUE) ELSE c,
                 Event("cart:item:added", t,
                       [productId |-> op.arg.product_id, quantity |-> op.arg.quantity]))
      [] op.operation = "removeItem" ->
            Emit(IF serverData # Null THEN SetData(c, serverData, TRUE) ELSE c,
                 Event("cart:item:removed", t, [productId |-> op.arg.product_id]))
      [] op.operation = "clear" ->
            Emit(c, Event("cart:cleared", t, Null))

(* ---------------------------- operations ------------------------------- *)

NoOp == [status |-> "idle"]

OpSlots == 1..MaxOps

Pending(i) == ops[i].status = "pending"

NoLast == [act |-> "none"]

\* an invocation record: what the closure of the running async method holds
\* (operation, arg, previousData), the promise it awaits (remote: the
\* adapter's, else one already resolved with `result`), the data its optimistic
\* update applied and its rank among the calls made
Invocation(operation, arg, previousData, optimistic, remote, result, seq) ==
    [status |-> "pending", operation |-> operation, arg |-> arg,
     previousData |-> previousData, optimistic |-> optimistic,
     remote |-> remote, result |-> result, seq |-> seq]

Apply(c) ==
    /\ store' = c.store
    /\ notified' = c.notified
    /\ events' = c.events
    /\ trace' = c.trace

Init ==
    /\ store \in {initialState} \cup PersistedSnapshots
    /\ domain = "cart"
    /\ adapter \in BOOLEAN
    /\ ops = [i \in OpSlots |-> NoOp]
    /\ microtasks = <<>>
    /\ calls = 0
    /\ now = 0
    /\ notified = <<>>
    /\ events = <<>>
    /\ trace = <<>>
    /\ last = NoLast

\* Date.now() moves on
Tick ==
    /\ now < MaxTime
    /\ now' = now + 1
    /\ UNCHANGED <<store, domain, adapter, ops, microtasks, calls, notified, events, trace, last>>

\* the next free invocation slot
FreeSlot(i) ==
    /\ calls < MaxCalls
    /\ ops[i].status = "idle"
    /\ \A j \in 1..(i - 1) : ops[j].status # "idle"

NonePending == \A j \in OpSlots : ops[j].status = "idle"

\* _withOptimisticUpdate from its call to its `await serverSync()`
WithOptimisticUpdate(i, operation, arg, optimistic) ==
    LET previousData == store.data
        c == WithOptimisticUpdateCall(Ctx(store), optimistic, now)
        \* serverSync(): the adapter's promise, or the local data at once
        result == IF adapter THEN Null ELSE c.store.data
    IN  /\ FreeSlot(i)
        /\ Apply(c)
        /\ ops' = [ops EXCEPT ![i] =
                      Invocation(operation, arg, previousData, optimistic, adapter,
                                 result, calls + 1)]
        /\ microtasks' = IF adapter THEN microtasks ELSE Append(microtasks, i)
        /\ calls' = calls + 1
        /\ last' = [act |-> "start", id |-> i, before |-> store.state,
                    alone |-> NonePending]
        /\ UNCHANGED <<domain, adapter, now>>

AddItem(i, item) ==
    LET optimistic == AddItemOptimistic(store.data, item)
    IN  /\ \A k \in 1..Len(optimistic.items) : optimistic.items[k].quantity <= MaxQty
        /\ WithOptimisticUpdate(i, "addItem", item, optimistic)

RemoveItem(i, p) ==
    WithOptimisticUpdate(i, "removeItem", [product_id |-> p],
                         RemoveItemOptimistic(store.data, p))

Clear(i) ==
    WithOptimisticUpdate(i, "clear", Null, ClearOptimistic)

Optimistic(i) == Pending(i) /\ ops[i].operation # "initialize"

\* the promise awaited by invocation i may settle now
Settles(i) ==
    IF ops[i].remote THEN microtasks = <<>> ELSE microtasks # <<>> /\ Head(microtasks) = i

Settled(i) ==
    /\ ops' = [ops EXCEPT ![i] = NoOp]
    /\ microtasks' = IF ops[i].remote THEN microtasks ELSE Tail(microtasks)
    /\ UNCHANGED <<domain, adapter, calls, now>>

\* invocation i has run from its start with no other step of the manager since
Undisturbed(i) == last.act = "start" /\ last.id = i /\ last.alone

\* the step of the manager that came just before: which it was and, for the
\* catch block of an optimistic operation, whose it was
Previous ==
    IF last.act = "reject" /\ last.run.operation # "initialize"
    THEN [act |-> "reject", seq |-> last.run.seq, optimistic |-> last.run.optimistic]
    ELSE [act |-> IF last.act = "reset" THEN "reset" ELSE "other"]

\* what a settling step records: the invocation, the step before it and, when
\* it ran undisturbed, the phase it started in and what its start handed to
\* the subscribers
Outcome(act, i, value) ==
    [act |-> act, id |-> i, run |-> ops[i], value |-> value, promise |-> "fulfilled",
     at |-> now,
     undisturbed |-> Undisturbed(i),
     before |-> IF Undisturbed(i) THEN last.before ELSE "unknown",
     started |-> IF Undisturbed(i) THEN notified ELSE <<>>,
     prev |-> Previous]

\* a try block that runs the success callback and never marks synced
WithOptimisticUpdateTryNoSync(c, op, result, t) ==
    OnSuccess(Call(c, "onSuccess"), op, result, t)

\* a try block that runs the success callback before marking synced
WithOptimisticUpdateTryCallbackFirst(c, op, result, t) ==
    MarkSynced(OnSuccess(Call(c, "onSuccess"), op, result, t), t)

\* the try block of _withOptimisticUpdate after the await
WithOptimisticUpdateTry(c, op, result, t) ==
    OnSuccess(Call(MarkSynced(c, t), "onSuccess"), op, result, t)

\* the adapter's promise of an optimistic operation resolves with serverData
Resolve(i, serverData) ==
    /\ Optimistic(i) /\ ops[i].remote /\ Settles(i)
    /\ Apply(WithOptimisticUpdateTry(Ctx(store), ops[i], serverData, now))
    /\ Settled(i)
    /\ last' = Outcome("resolve", i, serverData)

\* without an adapter serverSync() resolved with the local data
ResolveLocal(i) ==
    /\ Optimistic(i) /\ ~ops[i].remote /\ Settles(i)
    /\ Apply(WithOptimisticUpdateTry(Ctx(store), ops[i], ops[i].result, now))
    /\ Settled(i)
    /\ last' = Outcome("resolve", i, ops[i].result)

\* the adapter's promise of an optimistic operation rejects with e
Reject(i, e) ==
    /\ Optimistic(i) /\ ops[i].remote /\ Settles(i)
    /\ Apply(WithOptimisticUpdateCatch(Ctx(store), ops[i].previousData,
                                       ops[i].operation, e, now))
    /\ Settled(i)
    /\ last' = Outcome("reject", i, e)

\* initialize() that does not fall back to the empty cart
InitializeNoDefault(i) ==
    LET current == store
        c1 == IF current.data # Null THEN SetState(Ctx(store), "ready", now) ELSE Ctx(store)
        c2 == IF adapter
              THEN SetState(c1, "syncing", now)
              ELSE SetState(c1, "ready", now)
    IN  /\ FreeSlot(i)
        /\ Apply(c2)
        /\ ops' = IF adapter
                  THEN [ops EXCEPT ![i] =
                          Invocation("initialize", Null, Null, Null, TRUE, Null, calls + 1)]
                  ELSE ops
        /\ calls' = calls + 1
        /\ last' = IF adapter
                   THEN [act |-> "start", id |-> i, before |-> store.state,
                         alone |-> NonePending]
                   ELSE [act |-> "initialize", before |-> store.state,
                         promise |-> "fulfilled"]
        /\ UNCHANGED <<domain, adapter, microtasks, now>>

\* CartManager.initialize up to `await this._adapter.fetch()`, or to its end
\* when there is no adapter
Initialize(i) ==
    LET current == store
        c1 == IF current.data # Null THEN SetState(Ctx(store), "ready", now) ELSE Ctx(store)
        c2 == IF adapter
              THEN SetState(c1, "syncing", now)
              ELSE SetState(IF current.data = Null
                            THEN SetData(c1, CartData(<<>>), TRUE)
                            ELSE c1,
                            "ready", now)
    IN  /\ FreeSlot(i)
        /\ Apply(c2)
        /\ ops' = IF adapter
                  THEN [ops EXCEPT ![i] =
                          Invocation("initialize", Null, Null, Null, TRUE, Null, calls + 1)]
                  ELSE ops
        /\ calls' = calls + 1
        /\ last' = IF adapter
                   THEN [act |-> "start", id |-> i, before |-> store.state,
                         alone |-> NonePending]
                   ELSE [act |-> "initialize", before |-> store.state,
                         promise |-> "fulfilled"]
        /\ UNCHANGED <<domain, adapter, microtasks, now>>

\* a continuation of initialize() that marks synced without taking the data
InitializeResolveNoData(i, data) ==
    /\ Pending(i) /\ ops[i].operation = "initialize" /\ Settles(i)
    /\ Apply(MarkSynced(Ctx(store), now))
    /\ Settled(i)
    /\ last' = Outcome("resolve", i, data)

\* adapter.fetch() resolves with data
InitializeResolve(i, data) ==
    /\ Pending(i) /\ ops[i].operation = "initialize" /\ Settles(i)
    /\ Apply(MarkSynced(SetData(Ctx(store), data, TRUE), now))
    /\ Settled(i)
    /\ last' = Outcome("resolve", i, data)

\* a catch block of initialize() that also drops the data
InitializeRejectWipes(i, e) ==
    /\ Pending(i) /\ ops[i].operation = "initialize" /\ Settles(i)
    /\ Apply(SetError(StoreUpdate(Ctx(store), [store EXCEPT !.data = Null]),
                      DomainError("FETCH_FAILED", ErrorMessage(e, "Failed to fetch cart"),
                                  e, "initialize"),
                      now))
    /\ Settled(i)
    /\ last' = Outcome("reject", i, e)

\* adapter.fetch() rejects with e
InitializeReject(i, e) ==
    /\ Pending(i) /\ ops[i].operation = "initialize" /\ Settles(i)
    /\ Apply(SetError(Ctx(store),
                      DomainError("FETCH_FAILED", ErrorMessage(e, "Failed to fetch cart"),
                                  e, "initialize"),
                      now))
    /\ Settled(i)
    /\ last' = Outcome("reject", i, e)

\* a reset that keeps the data
ResetKeepsData ==
    /\ Apply(StoreUpdate(Ctx(store), [initialState EXCEPT !.data = store.data]))
    /\ last' = [act |-> "reset"]
    /\ UNCHANGED <<domain, adapter, ops, microtasks, calls, now>>

\* BaseDomainManager.reset: this._store.set(initial snapshot)
Reset ==
    /\ Apply(StoreUpdate(Ctx(store), initialState))
    /\ last' = [act |-> "reset"]
    /\ UNCHANGED <<domain, adapter, ops, microtasks, calls, now>>

Next ==
    \/ Tick
    \/ \E i \in OpSlots : Initialize(i)
    \/ \E i \in OpSlots, data \in AdapterCarts : InitializeResolve(i, data)
    \/ \E i \in OpSlots, e \in Rejections : InitializeReject(i, e)
    \/ \E i \in OpSlots, item \in Items : AddItem(i, item)
    \/ \E i \in OpSlots, p \in Products : RemoveItem(i, p)
    \/ \E i \in OpSlots : Clear(i)
    \/ \E i \in OpSlots, serverData \in AdapterCarts : Resolve(i, serverData)
    \/ \E i \in OpSlots : ResolveLocal(i)
    \/ \E i \in OpSlots, e \in Rejections : Reject(i, e)
    \/ Reset

Spec == Init /\ [][Next]_vars

(* ------------- the coordinator with arbitrary success callbacks -------- *)

\* _withOptimisticUpdate takes its callbacks from the caller.  A success
\* callback that throws does so inside the try block: either on entry or
\* after the effects of the cart's callback.  The thrown value reaches the
\* catch block like a rejection of serverSync().
ResolveThrow(i, serverData, point, e) ==
    LET synced == Call(MarkSynced(Ctx(store), now), "onSuccess")
        called == IF point = "exit" THEN OnSuccess(synced, ops[i], serverData, now)
                  ELSE synced
    IN  /\ Optimistic(i) /\ ops[i].remote /\ Settles(i)
        /\ Apply(WithOptimisticUpdateCatch(called, ops[i].previousData,
                                           ops[i].operation, e, now))
        /\ Settled(i)
        /\ last' = [Outcome("resolve", i, serverData) EXCEPT !.act = "resolve-throw"]

NextCb ==
    \/ Next
    \/ \E i \in OpSlots, serverData \in AdapterCarts, point \in {"enter", "exit"},
          e \in Rejections : ResolveThrow(i, serverData, point, e)

SpecCb == Init /\ [][NextCb]_vars

(* --------------------------- WishlistManager ---------------------------- *)

WishProducts == {"p1", "p2"}

WishlistItem(p, t) == [product_id |-> p, added_at |-> t]

WishlistData(items) == [items |-> items]

\* what the wishlist adapter answers with: wishlists the server stamped at 0
AdapterWishlists ==
    {WishlistData(<<>>),
     WishlistData(<<WishlistItem("p1", 0)>>),
     WishlistData(<<WishlistItem("p2", 0)>>),
     WishlistData(<<WishlistItem("p1", 0), WishlistItem("p2", 0)>>)}

\* a snapshot a previous page load may have left in the storage backend
PersistedWishlists ==
    {[state |-> "ready", data |-> WishlistData(<<WishlistItem("p1", 0)>>),
      error |-> Null, lastSyncedAt |-> Ts(0)]}

\* `this.store.get().data ?? { items: [] }`
WishlistCurrent == IF store.data = Null THEN WishlistData(<<>>) ELSE store.data

\* hasProduct, and the check addItem makes before anything else
HasProduct(p) ==
    \E k \in 1..Len(WishlistCurrent.items) : WishlistCurrent.items[k].product_id = p

InitWishlist ==
    /\ store \in {initialState} \cup PersistedWishlists
    /\ domain = "wishlist"
    /\ adapter \in BOOLEAN
    /\ ops = [i \in OpSlots |-> NoOp]
    /\ microtasks = <<>>
    /\ calls = 0
    /\ now = 0
    /\ notified = <<>>
    /\ events = <<>>
    /\ trace = <<>>
    /\ last = NoLast

\* a call that returns at once, having done nothing
ReturnsAtOnce(method, p) ==
    /\ calls < MaxCalls
    /\ Apply(Ctx(store))
    /\ calls' = calls + 1
    /\ last' = [act |-> "noop", method |-> method, arg |-> p, promise |-> "fulfilled"]
    /\ UNCHANGED <<domain, adapter, ops, microtasks, now>>

\* addItem without its check for an item already present
WishlistAddItemAlways(i, p) ==
    WithOptimisticUpdate(i, "addItem", [product_id |-> p],
                         WishlistData(Append(WishlistCurrent.items, WishlistItem(p, now))))

\* WishlistManager.addItem up to its await, or to its early return
WishlistAddItem(i, p) ==
    IF HasProduct(p)
    THEN i = 1 /\ ReturnsAtOnce("addItem", p)
    ELSE WithOptimisticUpdate(i, "addItem", [product_id |-> p],
                              WishlistData(Append(WishlistCurrent.items,
                                                  WishlistItem(p, now))))

WishlistRemoveItem(i, p) ==
    WithOptimisticUpdate(i, "removeItem", [product_id |-> p],
                         RemoveItemOptimistic(store.data, p))

WishlistClear(i) ==
    WithOptimisticUpdate(i, "clear", Null, WishlistData(<<>>))

NextWishlist ==
    \/ Tick
    \/ \E i \in OpSlots, p \in WishProducts : WishlistAddItem(i, p)
    \/ \E i \in OpSlots, p \in WishProducts : WishlistRemoveItem(i, p)
    \/ \E i \in OpSlots : WishlistClear(i)
    \/ \E i \in OpSlots, serverData \in AdapterWishlists : Resolve(i, serverData)
    \/ \E i \in OpSlots : ResolveLocal(i)
    \/ \E i \in OpSlots, e \in Rejections : Reject(i, e)
    \/ Reset

SpecWishlist == InitWishlist /\ [][NextWishlist]_vars

\* WishlistManager.toggleItem up to the await of the method it picks: the
\* value it will return is fixed by hasProduct() before that method runs, and
\* nothing but the return follows the await
WishlistToggleItem(i, p) ==
    IF HasProduct(p)
    THEN WithOptimisticUpdate(i, "removeItem", [product_id |-> p, returns |-> FALSE],
                              RemoveItemOptimistic(store.data, p))
    ELSE WithOptimisticUpdate(i, "addItem", [product_id |-> p, returns |-> TRUE],
                              WishlistData(Append(WishlistCurrent.items,
                                                  WishlistItem(p, now))))

NextToggle ==
    \/ NextWishlist
    \/ \E i \in OpSlots, p \in WishProducts : WishlistToggleItem(i, p)

SpecToggle == InitWishlist /\ [][NextToggle]_vars

(* ------------- OrderManager and PaymentManager: server calls ------------ *)

\* payments and orders an adapter may answer with
PaymentRefs == {"r1", "r2"}

OrderIds == {"o1", "o2"}

\* longest list an adapter answers with
MaxBatch == 2

Payment(r, s) == [provider_reference |-> r, status |-> s]

Order(id, s) == [model_id |-> id, status |-> s]

\* two states of the first payment (order), one of the second
Payments == {Payment("r1", "pending"), Payment("r1", "paid"), Payment("r2", "pending")}

Orders == {Order("o1", "pending"), Order("o1", "paid"), Order("o2", "pending")}

PaymentListData(payments) == [payments |-> payments]

OrderListData(orders) == [orders |-> orders]

PaymentIntents == {[id |-> "pi1", redirect_url |-> "https://pay"]}

SeqsUpTo(S, n) == UNION {[1..k -> S] : k \in 0..n}

\* errors an adapter may reject with: an Error, HTTP_ERROR.NotFound, a non-Error
ServerRejections ==
    {[isError |-> TRUE, message |-> "Network error", notFound |-> FALSE],
     [isError |-> TRUE, message |-> "Not Found", notFound |-> TRUE],
     [isError |-> FALSE, message |-> "n/a", notFound |-> FALSE]}

\* the asynchronous methods of the two managers that call the adapter
ServerMethods(d) ==
    IF d = "payment"
    THEN {"fetchForOrder", "fetchOne", "initiate", "capture"}
    ELSE {"fetchAll", "fetchOne", "create"}

\* what the adapter's promise of a method resolves with
Responses(d, method) ==
    CASE d = "payment" /\ method = "fetchForOrder" -> SeqsUpTo(Payments, MaxBatch)
      [] d = "payment" /\ method \in {"fetchOne", "capture"} -> Payments
      [] d = "payment" /\ method = "initiate" -> PaymentIntents
      [] d = "order" /\ method \in {"fetchAll", "initialize"} -> SeqsUpTo(Orders, MaxBatch)
      [] d = "order" /\ method \in {"fetchOne", "create"} -> Orders
      [] OTHER -> {}

\* what a method returns: the adapter's answer, or its empty result
Returned(kind, value) == [kind |-> kind, value |-> value]

EmptyResult(method) ==
    CASE method = "fetchForOrder" -> Returned("array", <<>>)
      [] method \in {"fetchAll", "initialize"} -> Returned("void", Null)
      [] OTHER -> Returned("null", Null)

\* index of the first element of list whose field key is value, 0 if none
IndexOf(list, key, value) ==
    LET hits == {k \in 1..Len(list) : list[k][key] = value}
    IN  IF hits = {} THEN 0 ELSE CHOOSE k \in hits : \A h \in hits : k <= h

\* fetchForOrder: the fetched payments whose reference is not yet listed
PaymentMerge(current, data) ==
    current \o SelectSeq(data,
                         LAMBDA p : IndexOf(current, "provider_reference",
                                            p.provider_reference) = 0)

\* fetchOne, capture: replace the listed element or append
Upsert(current, key, value, data) ==
    LET existingIndex == IndexOf(current, key, value)
    IN  IF existingIndex > 0
        THEN [current EXCEPT ![existingIndex] = data]
        ELSE Append(current, data)

CurrentPayments(c) == IF c.store.data = Null THEN <<>> ELSE c.store.data.payments

CurrentOrders(c) == IF c.store.data = Null THEN <<>> ELSE c.store.data.orders

\* the try block of a method after its await
ServerTry(c, op, data, t) ==
    CASE domain = "payment" /\ op.operation = "fetchForOrder" ->
            Emit(MarkSynced(SetData(c, PaymentListData(PaymentMerge(CurrentPayments(c), data)),
                                    TRUE), t),
                 Event("payment:fetched", t, Null))
      [] domain = "payment" /\ op.operation = "fetchOne" ->
            MarkSynced(SetData(c, PaymentListData(
                                    Upsert(CurrentPayments(c), "provider_reference",
                                           data.provider_reference, data)),
                               TRUE), t)
      [] domain = "payment" /\ op.operation = "initiate" ->
            Emit(MarkSynced(c, t),
                 Event("payment:initiated", t,
                       [orderId |-> op.arg, paymentIntentId |-> data.id,
                        redirectUrl |-> data.redirect_url]))
      [] domain = "payment" /\ op.operation = "capture" ->
            Emit(MarkSynced(SetData(c, PaymentListData(
                                        Upsert(CurrentPayments(c), "provider_reference",
                                               data.provider_reference, data)),
                                    TRUE), t),
                 Event("payment:captured", t, [paymentId |-> op.arg]))
      [] domain = "order" /\ op.operation = "initialize" ->
            MarkSynced(SetData(c, OrderListData(data), TRUE), t)
      [] domain = "order" /\ op.operation = "fetchAll" ->
            Emit(MarkSynced(SetData(c, OrderListData(data), TRUE), t),
                 Event("order:fetched", t, Null))
      [] domain = "order" /\ op.operation = "fetchOne" ->
            MarkSynced(SetData(c, OrderListData(
                                    Upsert(CurrentOrders(c), "model_id", op.arg, data)),
                               TRUE), t)
      [] domain = "order" /\ op.operation = "create" ->
            Emit(MarkSynced(SetData(c, OrderListData(Append(CurrentOrders(c), data)),
                                    TRUE), t),
                 Event("order:created", t, [orderId |-> data.model_id]))

\* the DomainError a method's catch block builds
ServerError(op, e) ==
    CASE domain = "payment" /\ op.operation = "fetchForOrder" ->
            DomainError("FETCH_FAILED", ErrorMessage(e, "Failed to fetch payments"),
                        e, "fetchForOrder")
      [] domain = "payment" /\ op.operation = "fetchOne" ->
            DomainError(IF e.isError /\ e.notFound THEN "NOT_FOUND" ELSE "FETCH_FAILED",
                        ErrorMessage(e, "Failed to fetch payment"), e, "fetchOne")
      [] domain = "payment" /\ op.operation = "initiate" ->
            DomainError("INITIATE_FAILED", ErrorMessage(e, "Failed to initiate payment"),
                        e, "initiate")
      [] domain = "payment" /\ op.operation = "capture" ->
            DomainError("CAPTURE_FAILED", ErrorMessage(e, "Failed to capture payment"),
                        e, "capture")
      [] domain = "order" /\ op.operation = "initialize" ->
            DomainError("FETCH_FAILED", ErrorMessage(e, "Failed to fetch orders"),
                        e, "initialize")
      [] domain = "order" /\ op.operation = "fetchAll" ->
            DomainError("FETCH_FAILED", ErrorMessage(e, "Failed to fetch orders"),
                        e, "fetchAll")
      [] domain = "order" /\ op.operation = "fetchOne" ->
            DomainError(IF e.isError /\ e.notFound THEN "NOT_FOUND" ELSE "FETCH_FAILED",
                        ErrorMessage(e, "Failed to fetch order"), e, "fetchOne")
      [] domain = "order" /\ op.operation = "create" ->
            DomainError("CREATE_FAILED", ErrorMessage(e, "Failed to create order"),
                        e, "create")

\* a catch block that also empties the list
ServerCatchDropsData(c, op, e, t) ==
    SetError(StoreUpdate(c, [c.store EXCEPT !.data = Null]), ServerError(op, e), t)

\* the catch block of a method
ServerCatch(c, op, e, t) == SetError(c, ServerError(op, e), t)

\* what a settling step of these managers records
ServerOutcome(act, i, value, returned) ==
    [act |-> act, id |-> i, run |-> ops[i], value |-> value, promise |-> "fulfilled",
     at |-> now, undisturbed |-> Undisturbed(i),
     before |-> IF Undisturbed(i) THEN last.before ELSE "unknown",
     started |-> IF Undisturbed(i) THEN notified ELSE <<>>,
     returned |-> returned]

InitServer ==
    /\ store = initialState
    /\ domain \in {"order", "payment"}
    /\ adapter \in BOOLEAN
    /\ ops = [i \in OpSlots |-> NoOp]
    /\ microtasks = <<>>
    /\ calls = 0
    /\ now = 0
    /\ notified = <<>>
    /\ events = <<>>
    /\ trace = <<>>
    /\ last = NoLast

\* PaymentManager.initialize, OrderManager.initialize up to its await or end
ServerInitialize(i) ==
    LET awaits == domain = "order" /\ adapter
        empty == IF domain = "payment" THEN PaymentListData(<<>>) ELSE OrderListData(<<>>)
    IN  /\ FreeSlot(i)
        /\ Apply(IF awaits
                 THEN SetState(Ctx(store), "syncing", now)
                 ELSE SetState(SetData(Ctx(store), empty, TRUE), "ready", now))
        /\ ops' = IF awaits
                  THEN [ops EXCEPT ![i] =
                          Invocation("initialize", Null, Null, Null, TRUE, Null, calls + 1)]
                  ELSE ops
        /\ calls' = calls + 1
        /\ last' = IF awaits
                   THEN [act |-> "start", id |-> i, before |-> store.state,
                         alone |-> NonePending]
                   ELSE [act |-> "initialize", before |-> store.state,
                         promise |-> "fulfilled", returned |-> EmptyResult("initialize")]
        /\ UNCHANGED <<domain, adapter, microtasks, now>>

\* a method from its call to its await, or to its return without adapter
ServerCall(i, method, arg) ==
    /\ method \in ServerMethods(domain)
    /\ arg \in (IF domain = "payment" THEN PaymentRefs ELSE OrderIds)
    /\ FreeSlot(i)
    /\ Apply(IF adapter THEN SetState(Ctx(store), "syncing", now) ELSE Ctx(store))
    /\ ops' = IF adapter
              THEN [ops EXCEPT ![i] =
                      Invocation(method, arg, Null, Null, TRUE, Null, calls + 1)]
              ELSE ops
    /\ calls' = calls + 1
    /\ last' = IF adapter
               THEN [act |-> "start", id |-> i, before |-> store.state,
                     alone |-> NonePending]
               ELSE [act |-> "return", method |-> method, promise |-> "fulfilled",
                     returned |-> EmptyResult(method)]
    /\ UNCHANGED <<domain, adapter, microtasks, now>>

\* the adapter's promise resolves with data
ServerResolve(i) ==
    /\ Pending(i) /\ Settles(i)
    /\ \E data \in Responses(domain, ops[i].operation) :
        /\ Apply(ServerTry(Ctx(store), ops[i], data, now))
        /\ last' = ServerOutcome("resolve", i, data,
                                 IF ops[i].operation \in {"fetchAll", "initialize"}
                                 THEN EmptyResult(ops[i].operation)
                                 ELSE Returned("data", data))
    /\ Settled(i)

\* the adapter's promise rejects with e
ServerReject(i, e) ==
    /\ Pending(i) /\ Settles(i)
    /\ Apply(ServerCatch(Ctx(store), ops[i], e, now))
    /\ Settled(i)
    /\ last' = ServerOutcome("reject", i, e, EmptyResult(ops[i].operation))

NextServer ==
    \/ Reset
    \/ \E i \in OpSlots : ServerInitialize(i)
    \/ \E i \in OpSlots, method \in ServerMethods("payment") \cup ServerMethods("order"),
          arg \in PaymentRefs \cup OrderIds : ServerCall(i, method, arg)
    \/ \E i \in OpSlots : ServerResolve(i)
    \/ \E i \in OpSlots, e \in ServerRejections : ServerReject(i, e)

SpecServer == InitServer /\ [][NextServer]_vars

(* ------------- CartManager.addItem on carts of several products --------- *)

ManyProducts == {"p1", "p2", "p3"}

\* most lines of a cart found in storage
MaxLines == 2

ManyItems == {CartItem(p, q) : p \in ManyProducts, q \in 1..MaxQty}

Carts == {CartData(items) : items \in SeqsUpTo(ManyItems, MaxLines)}

InitAddItem ==
    /\ store \in {initialState}
                \cup {[state |-> "ready", data |-> cart, error |-> Null,
                       lastSyncedAt |-> Ts(0)] : cart \in Carts}
    /\ domain = "cart"
    /\ adapter = TRUE
    /\ ops = [i \in OpSlots |-> NoOp]
    /\ microtasks = <<>>
    /\ calls = 0
    /\ now = 0
    /\ notified = <<>>
    /\ events = <<>>
    /\ trace = <<>>
    /\ last = NoLast

\* addItem of any item, up to its await
AddItemAny(i, item) ==
    WithOptimisticUpdate(i, "addItem", item, AddItemOptimistic(store.data, item))

NextAddItem == \E i \in OpSlots, item \in ManyItems : AddItemAny(i, item)

SpecAddItem == InitAddItem /\ [][NextAddItem]_vars

(* --------------- fairness: every remote sync settles -------------------- *)

\* the promise invocation i awaits settles, one way or the other
Settle(i) ==
    \/ \E serverData \in AdapterCarts : Resolve(i, serverData)
    \/ ResolveLocal(i)
    \/ \E e \in Rejections : Reject(i, e)
    \/ \E data \in AdapterCarts : InitializeResolve(i, data)
    \/ \E e \in Rejections : InitializeReject(i, e)

\* a method of the manager is called
Called ==
    \/ \E i \in OpSlots : Initialize(i)
    \/ \E i \in OpSlots, item \in Items : AddItem(i, item)
    \/ \E i \in OpSlots, p \in Products : RemoveItem(i, p)
    \/ \E i \in OpSlots : Clear(i)
    \/ Reset

\* the steps of the manager, the clock standing still
NextFair ==
    \/ Called
    \/ \E i \in OpSlots : Settle(i)

SpecFair == Init /\ [][NextFair]_vars /\ \A i \in OpSlots : WF_vars(Settle(i))

(* ------------------------------ claims --------------------------------- *)

\* the step that was last taken settled an optimistic operation
Rejected == last.act = "reject" /\ last.run.operation # "initialize"

Resolved == last.act = "resolve" /\ last.run.operation # "initialize"

\* every snapshot the last step produced, the current one included
Snapshots == {store} \cup {notified[k] : k \in 1..Len(notified)}

TypeOK ==
    /\ store.state \in DomainState
    /\ now \in 0..MaxTime
    /\ calls \in 0..MaxCalls

\* C1: when an optimistic operation that started with non-null data completes
\* after its remote sync rejected, data equals the data held at its start.
C1_RollbackExact ==
    (Rejected /\ last.run.previousData # Null) => store.data = last.run.previousData

\* a rejected operation whose optimistic data differed from its rollback point
C1_Witness ==
    /\ Rejected
    /\ last.run.previousData # Null
    /\ last.run.optimistic # last.run.previousData

\* C2: when the first of two overlapping operations rejects while the second
\* (started later, still awaiting) has applied its mutation, data becomes the
\* first's own rollback point, whatever the second had put there.
C2_RollbackOverwritesLater ==
    \A j \in OpSlots :
        (/\ Rejected
         /\ last.run.previousData # Null
         /\ Optimistic(j)
         /\ ops[j].seq > last.run.seq)
        => store.data = last.run.previousData

\* the lost update: the second started from the first's optimistic data, and
\* after the first's rollback its modification is no longer in data
C2_Witness ==
    \E j \in OpSlots :
        /\ Rejected
        /\ last.run.previousData # Null
        /\ Optimistic(j)
        /\ ops[j].seq > last.run.seq
        /\ ops[j].previousData = last.run.optimistic
        /\ ops[j].optimistic # ops[j].previousData
        /\ store.data # ops[j].optimistic

\* C3 (as claimed): in every snapshot, the intermediate ones handed to the
\* subscribers included, phase error comes with a non-null error.
C3_ErrorPhaseHasError ==
    \A s \in Snapshots : s.state = "error" => s.error # Null

\* C4 (as claimed): in every snapshot, the intermediate ones included, a phase
\* other than error comes with a null error.
C4_NoErrorOutsideErrorPhase ==
    \A s \in Snapshots : s.state # "error" => s.error = Null

\* the five transitions of the documented state machine
StateMachine ==
    {<<"initializing", "ready">>, <<"ready", "syncing">>, <<"syncing", "ready">>,
     <<"syncing", "error">>, <<"error", "syncing">>}

\* the snapshots a step of the manager goes through, from the one it found
Passage == <<store>> \o notified'

\* C5 (as claimed): every change of phase between two consecutive snapshots is
\* one of the five documented transitions.
C5_OnlyDocumentedTransitions ==
    [][now' = now =>
        \A k \in 1..(Len(Passage) - 1) :
            Passage[k].state # Passage[k + 1].state
                => <<Passage[k].state, Passage[k + 1].state>> \in StateMachine]_vars

\* the optimistic operation whose synchronous part was the last step
Started == last.act = "start" /\ ops[last.id].operation # "initialize"

\* C6 (as claimed): a successful optimistic operation hands the subscribers
\* exactly two snapshots, the optimistic one and then the committed one.
C6_ExactlyTwoSnapshots ==
    (Resolved /\ last.undisturbed) =>
        LET seen == last.started \o notified
        IN  /\ Len(seen) = 2
            /\ seen[1].data = last.run.optimistic
            /\ seen[2] = store

\* C6 (amended): the start of an optimistic operation hands the subscribers
\* the optimistic snapshot (optimistic data, error null, phase unchanged) and
\* then, unless the phase already was syncing, the syncing snapshot; its
\* successful completion hands them the synced snapshot (phase ready,
\* lastSyncedAt the commit time) and then, for addItem and removeItem, the
\* committed snapshot carrying the server's data; nothing else.
C6_SnapshotsOfSuccess ==
    /\ Started =>
            LET optimistic == [state |-> last.before,
                               data |-> ops[last.id].optimistic,
                               error |-> Null,
                               lastSyncedAt |-> store.lastSyncedAt]
            IN  notified = IF last.before = "syncing"
                           THEN <<optimistic>>
                           ELSE <<optimistic, [optimistic EXCEPT !.state = "syncing"]>>
    /\ Resolved =>
            /\ notified # <<>>
            /\ notified[1].state = "ready"
            /\ notified[1].lastSyncedAt = Ts(last.at)
            /\ notified = IF last.run.operation = "clear"
                          THEN <<notified[1]>>
                          ELSE <<notified[1],
                                 [notified[1] EXCEPT !.data = last.value, !.error = Null]>>
            /\ store = notified[Len(notified)]

\* an undisturbed successful addItem from phase ready: four snapshots
C6_Witness ==
    /\ Resolved
    /\ last.undisturbed
    /\ Len(last.started) = 2
    /\ Len(notified) = 2
    /\ last.started[1].data = last.run.optimistic
    /\ last.started[1].state = "ready"

\* C7 (as claimed): from phase ready, with no other call in between, the
\* snapshot is {syncing, D1} while the remote sync is pending, and {ready, S,
\* lastSyncedAt updated} when the operation completes.
C7_ScenarioB ==
    /\ \A i \in OpSlots :
            (Optimistic(i) /\ Undisturbed(i) /\ last.before = "ready")
                => (store.state = "syncing" /\ store.data = ops[i].optimistic)
    /\ (Resolved /\ last.undisturbed /\ last.before = "ready")
            => /\ store.state = "ready"
               /\ store.data = last.value
               /\ store.lastSyncedAt = Ts(last.at)

\* C7 (amended): as claimed, but at completion data is S only for operations
\* whose success callback commits the server's data (addItem, removeItem);
\* after clear it stays D1.
C7_ScenarioBCommitted ==
    /\ \A i \in OpSlots :
            (Optimistic(i) /\ Undisturbed(i) /\ last.before = "ready")
                => (store.state = "syncing" /\ store.data = ops[i].optimistic)
    /\ (Resolved /\ last.undisturbed /\ last.before = "ready")
            => /\ store.state = "ready"
               /\ store.data = IF last.run.operation = "clear"
                               THEN last.run.optimistic
                               ELSE last.value
               /\ store.lastSyncedAt = Ts(last.at)

\* an undisturbed addItem from {ready, D0} answered with S # D1, completing
\* at a later time than the previous sync
C7_Witness ==
    /\ Resolved
    /\ last.undisturbed
    /\ last.before = "ready"
    /\ last.run.operation = "addItem"
    /\ last.run.previousData # Null
    /\ last.value # last.run.optimistic
    /\ last.started[1].lastSyncedAt # store.lastSyncedAt

\* C8: when an optimistic operation named op completes after its remote sync
\* rejected, the phase is error and the error is non-null, has a code and
\* names op as its operation.
C8_ErrorNamesOperation ==
    Rejected =>
        /\ store.state = "error"
        /\ store.error # Null
        /\ store.error.code = "SYNC_FAILED"
        /\ store.error.operation = last.run.operation

\* a rejected clear, and a rejection that is not an Error object
C8_Witness ==
    /\ Rejected
    /\ last.run.operation = "clear"
    /\ ~last.value.isError

DomainErrorEvents == SelectSeq(events, LAMBDA ev : ev.type = "domain:error")

\* C9: a rejected remote sync does not leave the operation: its promise is
\* fulfilled, the snapshot carries the error, and exactly one domain:error
\* event, carrying that error, is published by the invocation.
C9_RejectionContained ==
    Rejected =>
        /\ last.promise = "fulfilled"
        /\ store.error # Null
        /\ store.error.originalError = last.value
        /\ Len(DomainErrorEvents) = 1
        /\ DomainErrorEvents[1].payload.error = store.error

\* a rejected operation with another one still in flight
C9_Witness ==
    /\ Rejected
    /\ \E j \in OpSlots : Optimistic(j)
    /\ Len(DomainErrorEvents) = 1

\* C10 (as claimed): an invocation whose remote sync resolved never sets phase
\* error, never publishes domain:error and never restores its rollback point,
\* whatever its callbacks do.
C10_NoRollbackAfterResolve ==
    (last.act \in {"resolve", "resolve-throw"} /\ last.run.operation # "initialize") =>
        /\ \A s \in Snapshots : s.state # "error"
        /\ DomainErrorEvents = <<>>
        /\ (last.value # last.run.previousData /\ last.run.operation # "clear")
                => store.data # last.run.previousData

\* the places of the trace holding a snapshot, an event of a type, a call
SnapshotAt(k) == trace[k].kind = "snapshot"

EventAt(k, type) == trace[k].kind = "event" /\ trace[k].event.type = type

CallAt(k, callee) == trace[k].kind = "call" /\ trace[k].callee = callee

Places == 1..Len(trace)

\* a step of the manager (time passing is none) that rejected an optimistic
\* operation started with data null
RejectsFirstWrite ==
    /\ now' = now
    /\ last'.act = "reject"
    /\ last'.run.operation # "initialize"
    /\ last'.run.previousData = Null

\* C11: when an optimistic operation that started with data null is rejected,
\* nothing is rolled back: the step leaves data as it found it (the optimistic
\* value when nothing else ran meanwhile), sets phase error and the error, and
\* publishes domain:error.
C11_NoRollbackWithoutRollbackPoint ==
    /\ [][RejectsFirstWrite =>
            /\ store'.data = store.data
            /\ \A k \in 1..Len(notified') : notified'[k].data = store.data
            /\ store'.state = "error"
            /\ store'.error # Null
            /\ \E k \in 1..Len(events') : events'[k].type = "domain:error"]_vars
    /\ []((Rejected /\ last.run.previousData = Null /\ last.undisturbed)
            => store.data = last.run.optimistic)

\* a rejected first write: data is the optimistic cart, not null
C11_Witness ==
    /\ Rejected
    /\ last.run.previousData = Null
    /\ last.undisturbed
    /\ store.data = last.run.optimistic
    /\ store.data # Null
    /\ store.state = "error"

\* C12: when serverSync() of an optimistic operation is called, the snapshot
\* carrying the optimistic data has already been handed to the subscribers.
C12_OptimisticBeforeRemoteCall ==
    Started =>
        /\ \E k \in Places : CallAt(k, "serverSync")
        /\ \A k \in Places :
                CallAt(k, "serverSync") =>
                    \E j \in 1..(k - 1) :
                        /\ SnapshotAt(j)
                        /\ trace[j].snapshot.data = ops[last.id].optimistic

\* an operation just started whose optimistic data differs from the data before
C12_Witness ==
    /\ Started
    /\ ops[last.id].remote
    /\ ops[last.id].optimistic # ops[last.id].previousData
    /\ store.data = ops[last.id].optimistic

\* C13: when an optimistic operation with a rollback point is rejected, the
\* rolled-back data is handed to the subscribers in the step that follows the
\* settling of the remote sync, and before domain:error is published.
C13_RollbackBeforeErrorEvent ==
    (Rejected /\ last.run.previousData # Null) =>
        /\ ops[last.id].status = "idle" \/ ops[last.id].seq # last.run.seq
        /\ \E k \in Places : EventAt(k, "domain:error")
        /\ \A k \in Places :
                EventAt(k, "domain:error") =>
                    /\ \E j \in 1..(k - 1) :
                            /\ SnapshotAt(j)
                            /\ trace[j].snapshot.data = last.run.previousData
                    /\ \A j \in (k + 1)..Len(trace) : ~SnapshotAt(j)
                    /\ trace[k].snapshot.data = last.run.previousData

\* a rollback that changed the data, followed by the error event
C13_Witness ==
    /\ Rejected
    /\ last.run.previousData # Null
    /\ last.run.previousData # last.run.optimistic
    /\ Len(trace) = 3
    /\ SnapshotAt(1) /\ SnapshotAt(2) /\ EventAt(3, "domain:error")

CartEvents == {"cart:item:added", "cart:item:removed", "cart:cleared"}

\* C14: on a resolved remote sync the step does, in this order: the store
\* update setting lastSyncedAt and phase ready, the publication of
\* domain:synced, the call of the success callback, the callback's own
\* update and event; so no cart event comes before domain:synced.
C14_CommitOrder ==
    Resolved =>
        /\ Len(trace) >= 4
        /\ SnapshotAt(1)
        /\ trace[1].snapshot.state = "ready"
        /\ trace[1].snapshot.lastSyncedAt = Ts(last.at)
        /\ EventAt(2, "domain:synced")
        /\ CallAt(3, "onSuccess")
        /\ \A k \in Places :
                (trace[k].kind = "event" /\ trace[k].event.type \in CartEvents) => k > 3
        /\ \E k \in Places : trace[k].kind = "event" /\ trace[k].event.type \in CartEvents

\* a resolved addItem: synced snapshot, domain:synced, callback, commit, event
C14_Witness ==
    /\ Resolved
    /\ Len(trace) = 5
    /\ EventAt(2, "domain:synced")
    /\ SnapshotAt(4)
    /\ EventAt(5, "cart:item:added")

LifecycleEvents == {"domain:state:changed", "domain:synced", "domain:error"}

\* C16 (as claimed): a step of the manager in which the phase changes, from
\* one snapshot to the next, publishes a lifecycle event.
C16_PhaseChangePublished ==
    [][(now' = now
            /\ \E k \in 1..(Len(Passage) - 1) : Passage[k + 1].state # Passage[k].state)
        => \E k \in 1..Len(events') : events'[k].type \in LifecycleEvents]_vars

\* the phase of the snapshot current when place k of trace tr was reached,
\* s0 being the snapshot the step started from
PhaseBefore(tr, s0, k) ==
    LET js == {j \in 1..(k - 1) : tr[j].kind = "snapshot"}
    IN  IF js = {}
        THEN s0.state
        ELSE tr[CHOOSE j \in js : \A h \in js : h <= j].snapshot.state

\* C17: a transition to the current phase does nothing: an optimistic
\* operation started in phase syncing hands out the one snapshot of its
\* optimistic update and publishes nothing, initialize() without adapter in
\* phase ready with data changes nothing; and every domain:state:changed
\* event follows the snapshot of its newState, which differs from its
\* previousState, the phase just before that snapshot.
C17_SamePhaseIsNoOp ==
    [][now' = now =>
        /\ \A k \in 1..Len(trace') :
                (trace'[k].kind = "event"
                    /\ trace'[k].event.type = "domain:state:changed") =>
                    /\ trace'[k].event.payload.previousState
                            # trace'[k].event.payload.newState
                    /\ k > 1
                    /\ trace'[k - 1].kind = "snapshot"
                    /\ trace'[k - 1].snapshot.state = trace'[k].event.payload.newState
                    /\ PhaseBefore(trace', store, k - 1)
                            = trace'[k].event.payload.previousState
        /\ (last'.act = "start" /\ ops'[last'.id].operation # "initialize"
                /\ store.state = "syncing")
            => /\ Len(notified') = 1
               /\ notified'[1].state = "syncing"
               /\ events' = <<>>
        /\ (last'.act = "initialize" /\ store.state = "ready" /\ store.data # Null)
            => /\ store' = store
               /\ notified' = <<>>
               /\ events' = <<>>]_vars

\* an optimistic operation started while the phase was already syncing
C17_Witness ==
    /\ Started
    /\ last.before = "syncing"
    /\ Len(notified) = 1
    /\ events = <<>>
    /\ store.state = "syncing"

\* C18 (as claimed): before any call on it, the manager is in phase
\* initializing.
C18_InitializingAfterConstruction ==
    last = NoLast => store.state = "initializing"

\* C19: an optimistic operation started in phase error has moved the phase to
\* syncing, and handed that snapshot out, when its serverSync() is called.
C19_ErrorIsReenterable ==
    (Started /\ last.before = "error") =>
        /\ store.state = "syncing"
        /\ \E k \in Places :
                /\ CallAt(k, "serverSync")
                /\ k > 1
                /\ EventAt(k - 1, "domain:state:changed")
                /\ trace[k - 1].event.payload
                        = [previousState |-> "error", newState |-> "syncing"]
                /\ trace[k - 1].snapshot.state = "syncing"

\* an operation started in phase error, now syncing with its serverSync called
C19_Witness ==
    /\ Started
    /\ last.before = "error"
    /\ store.state = "syncing"
    /\ CallAt(Len(trace), "serverSync")

StartsAnother ==
    /\ now' = now
    /\ last'.act = "start"
    /\ ops'[last'.id].operation # "initialize"

C21_ReadyMeansIdle ==
    store.state = "ready" => \A i \in OpSlots : ~(Pending(i) /\ ops[i].remote)

\* C22 (as claimed): in phase ready data is not null.
C22_ReadyHasData ==
    store.state = "ready" => store.data # Null

\* C23 (as claimed): when a write operation completes successfully, error is
\* null.
C23_SuccessClearsError ==
    (Resolved /\ last.run.remote) => store.error = Null

InitializeResolved == last.act = "resolve" /\ last.run.operation = "initialize"

InitializeRejected == last.act = "reject" /\ last.run.operation = "initialize"

\* C24: when the fetch of initialize() resolves with D the snapshot is
\* {ready, D, null, time of completion}, from {initializing, null, null, null}
\* as from any other snapshot.
C24_InitializeWithAdapter ==
    InitializeResolved =>
        store = [state |-> "ready", data |-> last.value, error |-> Null,
                 lastSyncedAt |-> Ts(last.at)]

\* initialize() from the initial snapshot, alone, resolved with a cart
C24_Witness ==
    /\ InitializeResolved
    /\ last.undisturbed
    /\ last.before = "initializing"
    /\ last.started[1].data = Null
    /\ store.state = "ready"
    /\ store.data = last.value
    /\ store.lastSyncedAt # Null

\* a step of initialize(): its start with an adapter, or its catch block
InitializeStarts ==
    now' = now /\ last'.act = "start" /\ ops'[last'.id].operation = "initialize"

InitializeFails ==
    now' = now /\ last'.act = "reject" /\ last'.run.operation = "initialize"

\* C25: neither the start of initialize() nor its catch block touches data or
\* lastSyncedAt; after the fetch rejected the phase is error and the error
\* names the operation initialize.
C25_InitializeFetchRejects ==
    /\ [][(InitializeStarts \/ InitializeFails) =>
            /\ store'.data = store.data
            /\ store'.lastSyncedAt = store.lastSyncedAt
            /\ \A k \in 1..Len(notified') :
                    /\ notified'[k].data = store.data
                    /\ notified'[k].lastSyncedAt = store.lastSyncedAt]_vars
    /\ [](InitializeRejected =>
            /\ store.state = "error"
            /\ store.error # Null
            /\ store.error.operation = "initialize"
            /\ store.error.code = "FETCH_FAILED")

\* a failed initialize() of a manager restored from storage: the cart is kept
C25_Witness ==
    /\ InitializeRejected
    /\ last.undisturbed
    /\ last.before = "ready"
    /\ store.data # Null
    /\ store.lastSyncedAt # Null
    /\ store.state = "error"

C27_ResetToInitial ==
    [][(now' = now /\ last'.act = "reset") =>
        /\ store' = initialState
        /\ notified' = <<initialState>>
        /\ events' = <<>>]_vars

\* a reset while an operation is pending
C27_Witness ==
    /\ last.act = "reset"
    /\ store = initialState
    /\ \E i \in OpSlots : Optimistic(i) /\ ops[i].optimistic # Null

\* the step that ended a server call because the adapter's promise rejected
ServerRejected == last.act = "reject" /\ last.run.operation \in ServerMethods(domain)

\* a step of a server call: its start, or its catch block
ServerCallStarts ==
    last'.act = "start" /\ ops'[last'.id].operation \in ServerMethods(domain)

ServerCallFails ==
    last'.act = "reject" /\ last'.run.operation \in ServerMethods(domain)

\* C28: a server call of OrderManager or PaymentManager whose adapter call
\* rejects does not throw and returns its empty result ([] for fetchForOrder,
\* nothing for fetchAll, null for the others); the phase is then error and
\* the error names the method; neither its start nor its catch block
\* changes data.
C28_ServerCallRejected ==
    /\ [](ServerRejected =>
            /\ last.promise = "fulfilled"
            /\ last.returned.kind =
                    (CASE last.run.operation = "fetchForOrder" -> "array"
                       [] last.run.operation = "fetchAll" -> "void"
                       [] OTHER -> "null")
            /\ last.returned.kind = "array" => last.returned.value = <<>>
            /\ store.state = "error"
            /\ store.error # Null
            /\ store.error.operation = last.run.operation)
    /\ [][(ServerCallStarts \/ ServerCallFails) =>
            /\ store'.data = store.data
            /\ \A k \in 1..Len(notified') : notified'[k].data = store.data]_vars

\* a rejected capture on a manager that holds payments: the list is kept
C28_Witness ==
    /\ ServerRejected
    /\ domain = "payment"
    /\ last.run.operation = "capture"
    /\ last.undisturbed
    /\ store.data # Null
    /\ store.data.payments # <<>>
    /\ store.state = "error"

\* the product is in the wishlist the step starts from
Listed(p) == HasProduct(p)

\* C30: addItem(p) with p already in the wishlist returns at once: the
\* snapshot is the same, nothing is handed to subscribers, nothing is
\* published, no invocation is started and serverSync() is not called; and
\* addItem starts an invocation only for a product that is not listed.
C30_AddItemPresentIsNoOp ==
    [][now' = now =>
        /\ last'.act = "noop" =>
                /\ Listed(last'.arg)
                /\ store' = store
                /\ notified' = <<>>
                /\ events' = <<>>
                /\ trace' = <<>>
                /\ ops' = ops
                /\ microtasks' = microtasks
        /\ (last'.act = "start" /\ ops'[last'.id].operation = "addItem") =>
                ~Listed(ops'[last'.id].arg.product_id)]_vars

\* addItem of a product listed with an earlier added_at returned at once
C30_Witness ==
    /\ last.act = "noop"
    /\ last.method = "addItem"
    /\ now > 0
    /\ \E k \in 1..Len(store.data.items) :
            /\ store.data.items[k].product_id = last.arg
            /\ store.data.items[k].added_at < now

\* the lines of a cart, none for null
Lines(data) == IF data = Null THEN <<>> ELSE data.items

\* C33: the optimistic step of addItem(item) adds item.quantity to the first
\* line of the product when there is one, the number of lines staying the
\* same, and appends item at the end otherwise; every other line is the
\* same at the same place.
C33_AddItemOptimisticStep ==
    (Started /\ ops[last.id].operation = "addItem") =>
        LET item == ops[last.id].arg
            old == Lines(ops[last.id].previousData)
            new == Lines(ops[last.id].optimistic)
            hits == {k \in 1..Len(old) : old[k].product_id = item.product_id}
        IN  /\ store.data = ops[last.id].optimistic
            /\ hits # {} =>
                    /\ Len(new) = Len(old)
                    /\ \E k \in hits :
                            /\ \A h \in hits : k <= h
                            /\ new[k].product_id = item.product_id
                            /\ new[k].quantity = old[k].quantity + item.quantity
                            /\ \A j \in 1..Len(old) : j # k => new[j] = old[j]
            /\ hits = {} =>
                    /\ Len(new) = Len(old) + 1
                    /\ new[Len(new)] = item
                    /\ \A j \in 1..Len(old) : new[j] = old[j]

\* addItem of the product on the second of two lines: the first is kept
C33_Witness ==
    /\ Started
    /\ ops[last.id].operation = "addItem"
    /\ Len(Lines(ops[last.id].previousData)) = 2
    /\ Lines(ops[last.id].previousData)[1].product_id # ops[last.id].arg.product_id
    /\ Lines(ops[last.id].previousData)[2].product_id = ops[last.id].arg.product_id
    /\ store.data.items[2].quantity > ops[last.id].arg.quantity

\* a step that starts an optimistic operation
StartsOptimistic ==
    now' = now /\ last'.act = "start" /\ ops'[last'.id].operation # "initialize"

\* C34: the first snapshot an optimistic operation hands out carries its
\* optimistic data with the phase and lastSyncedAt found at its start; the
\* only other phase seen before the await is syncing, never ready because of
\* the mutation.
C34_ApplyKeepsPhase ==
    [][StartsOptimistic =>
        /\ Len(notified') >= 1
        /\ notified'[1].data = ops'[last'.id].optimistic
        /\ notified'[1].state = store.state
        /\ notified'[1].lastSyncedAt = store.lastSyncedAt
        /\ \A k \in 1..Len(notified') :
                /\ notified'[k].state \in {store.state, "syncing"}
                /\ notified'[k].lastSyncedAt = store.lastSyncedAt]_vars

\* an operation started in phase initializing: its first snapshot has the
\* optimistic cart and is still initializing
C34_Witness ==
    /\ Started
    /\ last.before = "initializing"
    /\ Len(notified) = 2
    /\ notified[1].state = "initializing"
    /\ notified[1].data = ops[last.id].optimistic
    /\ notified[2].state = "syncing"

\* C35: while one invocation alone awaits its remote call and nothing else
\* was called since its start, the phase is syncing.
C35_SyncingWhileAloneInFlight ==
    \A i \in OpSlots : (Pending(i) /\ Undisturbed(i)) => store.state = "syncing"

\* one invocation alone, still awaiting after time has passed
C35_Witness ==
    \E i \in OpSlots :
        /\ Pending(i)
        /\ Undisturbed(i)
        /\ ops[i].remote
        /\ now > 0
        /\ \A j \in OpSlots : j # i => ~Pending(j)
        /\ store.state = "syncing"

\* the second of two overlapping optimistic operations was rejected right
\* after the first, whose optimistic data was its rollback point
BothRejected ==
    /\ Rejected
    /\ last.prev.act = "reject"
    /\ last.prev.seq < last.run.seq
    /\ last.run.previousData = last.prev.optimistic

\* C36: when op2 started from op1's optimistic data D1 while op1 was awaiting
\* and both remote syncs rejected, op1's first, data ends as D1.
C36_DoubleRejectKeepsFirstOptimistic ==
    BothRejected => store.data = last.prev.optimistic

\* both rejected; D1 is what op2 rolled back to and differs from op2's own
\* optimistic data
C36_Witness ==
    /\ BothRejected
    /\ store.data = last.prev.optimistic
    /\ last.prev.optimistic # last.run.optimistic
    /\ last.prev.optimistic # Null
    /\ store.state = "error"

\* an optimistic operation settled right after reset()
SettledAfterReset(act) ==
    /\ last.act = act
    /\ last.run.operation # "initialize"
    /\ last.prev.act = "reset"

\* C37: an optimistic operation still awaiting when reset() is called runs
\* on: rejected, it puts back the non-null data D it started from and sets
\* phase error; resolved, it sets phase ready and lastSyncedAt.
C37_ResetDoesNotCancel ==
    /\ (SettledAfterReset("reject") /\ last.run.previousData # Null)
            => (store.data = last.run.previousData /\ store.state = "error")
    /\ SettledAfterReset("resolve")
            => (store.state = "ready" /\ store.lastSyncedAt = Ts(last.at))

\* rejected right after reset(): the cart from before the operation is back
C37_Witness ==
    /\ SettledAfterReset("reject")
    /\ last.run.previousData # Null
    /\ store.data = last.run.previousData
    /\ store.lastSyncedAt = Null
    /\ store.state = "error"

\* C38: the snapshot current when an event is published is the one the
\* event reports: phase newState for domain:state:changed, phase ready with
\* lastSyncedAt for domain:synced, phase error with the published error for
\* domain:error.
C38_EventsFollowStoreUpdate ==
    \A k \in Places :
        /\ EventAt(k, "domain:state:changed") =>
                trace[k].snapshot.state = trace[k].event.payload.newState
        /\ EventAt(k, "domain:synced") =>
                /\ trace[k].snapshot.state = "ready"
                /\ trace[k].snapshot.lastSyncedAt # Null
        /\ EventAt(k, "domain:error") =>
                /\ trace[k].snapshot.state = "error"
                /\ trace[k].snapshot.error = trace[k].event.payload.error

\* a rejected operation: its catch block published domain:error, and the
\* snapshot current at that moment carries the published error
C38_Witness ==
    /\ Rejected
    /\ \E k \in Places :
            /\ EventAt(k, "domain:error")
            /\ trace[k].snapshot.error = store.error
            /\ trace[k].snapshot.error # Null

\* C39: a step changes lastSyncedAt only by completing a sync, to the time of
\* completion, or by reset(), to null; no snapshot handed out in between
\* carries any other value.
C39_LastSyncedAtFrame ==
    [][now' = now =>
        /\ store'.lastSyncedAt # store.lastSyncedAt =>
                \/ last'.act = "resolve" /\ store'.lastSyncedAt = Ts(now)
                \/ last'.act = "reset" /\ store'.lastSyncedAt = Null
        /\ last'.act \notin {"resolve", "reset"} =>
                \A k \in 1..Len(notified') :
                    notified'[k].lastSyncedAt = store.lastSyncedAt]_vars

\* a rejected operation with a rollback on a cart synced earlier
C39_Witness ==
    /\ Rejected
    /\ last.run.previousData # Null
    /\ store.lastSyncedAt # Null
    /\ last.at > 0
    /\ store.lastSyncedAt = Ts(0)

\* C40: when every remote sync settles, every optimistic operation that
\* started completes; on completion the phase is ready after a resolve and
\* error after a reject.
C40_EveryOperationCompletes ==
    /\ \A i \in OpSlots : Optimistic(i) ~> ~Pending(i)
    /\ [](Resolved => store.state = "ready")
    /\ [](Rejected => store.state = "error")

\* the second of two overlapping operations completed, resolved
C40_Witness ==
    /\ Resolved
    /\ last.run.seq = 2
    /\ ~last.undisturbed
    /\ NonePending
    /\ store.state = "ready"

\* the last step completed a call of toggleItem
ToggleCompleted ==
    /\ last.act \in {"resolve", "reject"}
    /\ "returns" \in DOMAIN last.run.arg

C32_NoDuplicatePayments ==
    (domain = "payment" /\ store.data # Null) =>
        \A j, k \in 1..Len(store.data.payments) :
            store.data.payments[j].provider_reference
                = store.data.payments[k].provider_reference => j = k

====
